---- MODULE Spec2Model ----
(***************************************************************************)
(* Compliance Query API (src/src/compliance_api.py).                       *)
(*                                                                         *)
(* Every endpoint is a stateless handler that builds a filter dictionary,  *)
(* calls the external audit store (audit_logger) and shapes a response.    *)
(* One action models one handler from the arrival of the request to the    *)
(* response.  The state is the record of the request being served: the     *)
(* request, the calls made to the store, what the store did, the response. *)
(* Nothing survives a request: when the response has been sent the request *)
(* context is dropped and the service waits for the next request.          *)
(*                                                                         *)
(* Python strings are sequences of one-character strings, so that int()    *)
(* and the membership test on `status` are computed and not assumed.       *)
(* A JSON value is a record [kind, num, str]; a dict is a function from    *)
(* its keys; an audit record (an ordered dict of text cells) is a sequence *)
(* of <<key, value>> pairs.                                                *)
(***************************************************************************)
EXTENDS Integers, Sequences, FiniteSets, TLC

VARIABLES op, req, storeLog, storeOut, response

vars == <<op, req, storeLog, storeOut, response>>

----------------------------------------------------------------------------
(* Bounds of the model *)

\* largest number of keys in a request body
MaxBodyKeys == 3

\* largest number of records the store returns to one call
MaxRecords == 2

----------------------------------------------------------------------------
(* JSON values and Python strings *)

JStr(s) == [kind |-> "str", num |-> 0, str |-> s]

JInt(n) == [kind |-> "int", num |-> n, str |-> <<>>]

JNull == [kind |-> "null", num |-> 0, str |-> <<>>]

EmptyDict == [k \in {} |-> JNull]

StrSuccess == <<"s", "u", "c", "c", "e", "s", "s">>

StrError == <<"e", "r", "r", "o", "r">>

StrPending == <<"p", "e", "n", "d", "i", "n", "g">>

\* an exception or error message: its fixed words and the value it quotes
Msg(words, arg) == [words |-> words, arg |-> arg]

NoMsg == Msg(<<>>, <<>>)

----------------------------------------------------------------------------
(* int(): Python's conversion of a JSON value to an integer *)

DigitChars == <<"0", "1", "2", "3", "4", "5", "6", "7", "8", "9">>

IsDigit(c) == \E i \in 1..10 : DigitChars[i] = c

DigitValue(c) == (CHOOSE i \in 1..10 : DigitChars[i] = c) - 1

IsSpace(c) == c \in {" ", "\t", "\n", "\r"}

RECURSIVE LStrip(_)
LStrip(s) == IF s # <<>> /\ IsSpace(Head(s)) THEN LStrip(Tail(s)) ELSE s

RECURSIVE RStrip(_)
RStrip(s) ==
    IF s # <<>> /\ IsSpace(s[Len(s)]) THEN RStrip(SubSeq(s, 1, Len(s) - 1)) ELSE s

Strip(s) == RStrip(LStrip(s))

\* the digits of an integer literal: digits with single underscores between
ValidDigits(s) ==
    /\ s # <<>>
    /\ IsDigit(s[1])
    /\ IsDigit(s[Len(s)])
    /\ \A i \in 1..Len(s) : IsDigit(s[i]) \/ s[i] = "_"
    /\ \A i \in 1..(Len(s) - 1) : ~(s[i] = "_" /\ s[i + 1] = "_")

RECURSIVE DigitsValue(_, _)
DigitsValue(s, acc) ==
    IF s = <<>> THEN acc
    ELSE IF Head(s) = "_" THEN DigitsValue(Tail(s), acc)
    ELSE DigitsValue(Tail(s), 10 * acc + DigitValue(Head(s)))

IntOfStr(s) ==
    LET t == Strip(s)
        signed == t # <<>> /\ Head(t) \in {"+", "-"}
        d == IF signed THEN Tail(t) ELSE t
    IN  IF ValidDigits(d)
        THEN [ok |-> TRUE,
              n |-> IF signed /\ Head(t) = "-" THEN 0 - DigitsValue(d, 0)
                    ELSE DigitsValue(d, 0),
              err |-> NoMsg]
        ELSE [ok |-> FALSE, n |-> 0,
              err |-> Msg(<<"invalid", "literal", "for", "int()", "with",
                            "base", "10:">>, s)]

int(v) ==
    IF v.kind = "int" THEN [ok |-> TRUE, n |-> v.num, err |-> NoMsg]
    ELSE IF v.kind = "str" THEN IntOfStr(v.str)
    ELSE [ok |-> FALSE, n |-> 0,
          err |-> Msg(<<"int()", "argument", "must", "be", "a", "string,",
                        "a", "bytes-like", "object", "or", "a", "real",
                        "number,", "not">>, <<"NoneType">>)]

----------------------------------------------------------------------------
(* Requests *)

FilterKeys == {"request_id", "input_hash", "tenant_id", "user_id", "source",
               "status", "start_time", "end_time"}

BodyKeys == FilterKeys \cup {"limit", "format"}

T0 == <<"2", "0", "2", "5", "-", "0", "1", "-", "1", "5">>

T1 == <<"2", "0", "2", "5", "-", "0", "1", "-", "1", "6">>

\* the values a request body may give to a key
ValuesOf(k) ==
    CASE k = "request_id" -> {JStr(<<"r", "1">>), JStr(<<>>)}
      [] k = "input_hash" -> {JStr(<<"h", "1">>)}
      [] k = "tenant_id" -> {JStr(<<"t", "1">>), JNull}
      [] k = "user_id" -> {JStr(<<"u", "1">>)}
      [] k = "source" -> {JStr(<<"s", "1">>)}
      [] k = "status" -> {JStr(StrSuccess), JStr(StrError), JStr(StrPending),
                          JStr(<<>>), JInt(1)}
      [] k = "start_time" -> {JStr(T0)}
      [] k = "end_time" -> {JStr(T1)}
      [] k = "limit" -> {JInt(5), JInt(0), JInt(-1), JStr(<<"a", "b", "c">>),
                         JStr(<<" ", "7">>), JStr(<<"-", "3">>), JNull}
      [] k = "format" -> {JStr(<<"c", "s", "v">>)}

Extend(m, k, v) == [x \in (DOMAIN m) \cup {k} |-> IF x = k THEN v ELSE m[x]]

RECURSIVE DictsOver(_)
DictsOver(S) ==
    IF S = {} THEN {EmptyDict}
    ELSE LET k == CHOOSE x \in S : TRUE
         IN  {Extend(m, k, v) : m \in DictsOver(S \ {k}), v \in ValuesOf(k)}

Bodies ==
    UNION {DictsOver(S) : S \in {T \in SUBSET BodyKeys : Cardinality(T) <= MaxBodyKeys}}

PathArgs == {<<"r", "1">>, <<"u", "n", "k", "n", "o", "w", "n">>}

NoRequest == [hasJson |-> FALSE, json |-> EmptyDict, path |-> <<>>]

\* a POST either carries a JSON object or no JSON at all
PostRequests ==
    {[hasJson |-> TRUE, json |-> b, path |-> <<>>] : b \in Bodies} \cup {NoRequest}

GetRequests == {[hasJson |-> FALSE, json |-> EmptyDict, path |-> p] : p \in PathArgs}

\* request.json or {}
query_params(r) == IF r.hasJson THEN r.json ELSE EmptyDict

----------------------------------------------------------------------------
(* The audit store: a black box that returns records or raises *)

AuditRecords ==
    { <<<<"request_id", "r1">>, <<"status", "success">>>>,
      <<<<"request_id", "r2">>, <<"status", "error">>>>,
      <<<<"status", "error">>, <<"request_id", "r3">>>>,
      <<<<"request_id", "r4">>>>,
      <<<<"request_id", "r5">>, <<"status", "success">>, <<"extra", "x">>>> }

RecordLists == UNION {[1..n -> AuditRecords] : n \in 0..MaxRecords}

StoreErrors == {Msg(<<"database", "is", "locked">>, <<>>),
                Msg(<<"disk", "I/O", "error">>, <<>>)}

Returned(records) ==
    [raised |-> FALSE, error |-> NoMsg, records |-> records, stats |-> ""]

Raised(e) == [raised |-> TRUE, error |-> e, records |-> <<>>, stats |-> ""]

NotCalled == Returned(<<>>)

QueryOutcomes == {Returned(rs) : rs \in RecordLists} \cup {Raised(e) : e \in StoreErrors}

StatisticsOutcomes ==
    {[raised |-> FALSE, error |-> NoMsg, records |-> <<>>, stats |-> "summary"]}
        \cup {Raised(e) : e \in StoreErrors}

QueryLogs(filters) == [fn |-> "query_logs", filters |-> filters]

GetStatisticsCall == [fn |-> "get_statistics", filters |-> EmptyDict]

\* Invoke with a retry: a failed call is made a second time
InvokeRetrying(call, out) ==
    [log |-> IF out.raised THEN <<call, call>> ELSE <<call>>, out |-> out]

\* one call of a method of audit_logger: the calls made and what came back
Invoke(call, out) == [log |-> <<call>>, out |-> out]

----------------------------------------------------------------------------
(* Responses *)

EmptyResponse ==
    [code |-> 0, kind |-> "none", error |-> NoMsg, count |-> 0, echo |-> <<>>,
     results |-> <<>>, csv |-> <<>>, stats |-> "", attachment |-> FALSE]

\* jsonify({"error": ...}), code
JsonError(code, msg) ==
    [EmptyResponse EXCEPT !.code = code, !.kind = "error", !.error = msg]

StatusMsg == Msg(<<"status", "must", "be", "'success'", "or", "'error'">>, <<>>)

NotFoundMsg == Msg(<<"Request", "not", "found">>, <<>>)

\* except Exception as e: return jsonify({"error": str(e)}), 500
InternalError(e) == JsonError(500, e)

\* what a handler answers after its call of the store
Answer(out, ok) == IF out.raised THEN InternalError(out.error) ELSE ok

----------------------------------------------------------------------------
(* compliance_query: POST /api/compliance/query *)

\* query_params['status'] in ['success', 'error']
StatusAllowed(v) == v.kind = "str" /\ v.str \in {StrSuccess, StrError}

\* CopyPresent with a default: an absent key becomes an empty string
CopyDefaulting(params, keys) ==
    [k \in keys |-> IF k \in DOMAIN params THEN params[k] ELSE JStr(<<>>)]

\* the keys copied into filters when present
CopyPresent(params, keys) == [k \in (DOMAIN params) \cap keys |-> params[k]]

\* the filters built from a body that passes validation
QueryFilters(params) ==
    LET copied == CopyPresent(params, FilterKeys)
    IN  IF "limit" \in DOMAIN params
        THEN Extend(copied, "limit", JInt(int(params["limit"]).n))
        ELSE copied

\* QueryPlan with the two checks swapped: limit is converted before status
\* is checked
QueryPlanLimitFirst(params) ==
    IF "limit" \in DOMAIN params /\ ~int(params["limit"]).ok
    THEN [stage |-> "raised", filters |-> EmptyDict,
          err |-> int(params["limit"]).err]
    ELSE IF "status" \in DOMAIN params /\ ~StatusAllowed(params["status"])
    THEN [stage |-> "rejected", filters |-> EmptyDict, err |-> StatusMsg]
    ELSE [stage |-> "built", filters |-> QueryFilters(params), err |-> NoMsg]

\* the handler up to the call of the store, in the order of the code:
\* status is checked before limit is converted
QueryPlan(params) ==
    IF "status" \in DOMAIN params /\ ~StatusAllowed(params["status"])
    THEN [stage |-> "rejected", filters |-> EmptyDict, err |-> StatusMsg]
    ELSE IF "limit" \in DOMAIN params /\ ~int(params["limit"]).ok
    THEN [stage |-> "raised", filters |-> EmptyDict,
          err |-> int(params["limit"]).err]
    ELSE [stage |-> "built", filters |-> QueryFilters(params), err |-> NoMsg]

\* jsonify({"count": len(results), "results": results}), 200
QueryResponse(results) ==
    [EmptyResponse EXCEPT !.code = 200, !.kind = "list",
                          !.count = Len(results), !.results = results]

compliance_query ==
    /\ op = "idle"
    /\ \E r \in PostRequests :
        LET plan == QueryPlan(query_params(r))
        IN  /\ op' = "compliance_query"
            /\ req' = r
            /\ IF plan.stage = "rejected"
               THEN /\ storeLog' = <<>>
                    /\ storeOut' = NotCalled
                    /\ response' = JsonError(400, plan.err)
               ELSE IF plan.stage = "raised"
               THEN /\ storeLog' = <<>>
                    /\ storeOut' = NotCalled
                    /\ response' = InternalError(plan.err)
               ELSE \E out \in QueryOutcomes :
                        LET inv == Invoke(QueryLogs(plan.filters), out)
                        IN  /\ storeLog' = inv.log
                            /\ storeOut' = inv.out
                            /\ response' = Answer(inv.out, QueryResponse(inv.out.records))

----------------------------------------------------------------------------
(* get_request: GET /api/compliance/request/<request_id> *)

RequestFilters(request_id) ==
    Extend(Extend(EmptyDict, "request_id", JStr(request_id)), "limit", JInt(1))

\* GetRequestResponse without the emptiness test: results[0] of an empty
\* list raises IndexError
GetRequestResponseUnchecked(results) ==
    IF results = <<>>
    THEN InternalError(Msg(<<"list", "index", "out", "of", "range">>, <<>>))
    ELSE [EmptyResponse EXCEPT !.code = 200, !.kind = "record",
                               !.results = <<results[1]>>]

GetRequestResponse(results) ==
    IF results = <<>>
    THEN JsonError(404, NotFoundMsg)
    ELSE [EmptyResponse EXCEPT !.code = 200, !.kind = "record",
                               !.results = <<results[1]>>]

get_request ==
    /\ op = "idle"
    /\ \E r \in GetRequests, out \in QueryOutcomes :
        LET inv == Invoke(QueryLogs(RequestFilters(r.path)), out)
        IN  /\ op' = "get_request"
            /\ req' = r
            /\ storeLog' = inv.log
            /\ storeOut' = inv.out
            /\ response' = Answer(inv.out, GetRequestResponse(inv.out.records))

----------------------------------------------------------------------------
(* get_duplicates: GET /api/compliance/duplicates/<input_hash> *)

DuplicatesFilters(input_hash) == Extend(EmptyDict, "input_hash", JStr(input_hash))

DuplicatesResponse(input_hash, results) ==
    [EmptyResponse EXCEPT !.code = 200, !.kind = "duplicates",
                          !.count = Len(results), !.echo = input_hash,
                          !.results = results]

get_duplicates ==
    /\ op = "idle"
    /\ \E r \in GetRequests, out \in QueryOutcomes :
        LET inv == Invoke(QueryLogs(DuplicatesFilters(r.path)), out)
        IN  /\ op' = "get_duplicates"
            /\ req' = r
            /\ storeLog' = inv.log
            /\ storeOut' = inv.out
            /\ response' = Answer(inv.out,
                                  DuplicatesResponse(r.path, inv.out.records))

----------------------------------------------------------------------------
(* get_statistics: GET /api/compliance/statistics *)

StatisticsResponse(stats) ==
    [EmptyResponse EXCEPT !.code = 200, !.kind = "statistics", !.stats = stats]

get_statistics ==
    /\ op = "idle"
    /\ \E out \in StatisticsOutcomes :
        LET inv == Invoke(GetStatisticsCall, out)
        IN  /\ op' = "get_statistics"
            /\ req' = NoRequest
            /\ storeLog' = inv.log
            /\ storeOut' = inv.out
            /\ response' = Answer(inv.out, StatisticsResponse(inv.out.stats))

----------------------------------------------------------------------------
(* export_logs: POST /api/compliance/export *)

ExportLimit == 10000

\* ExportFilters that copies every filter key of the body
ExportFiltersAllKeys(params) ==
    Extend(CopyPresent(params, FilterKeys), "limit", JInt(ExportLimit))

ExportFilters(params) ==
    Extend(CopyPresent(params, {"start_time", "end_time"}), "limit",
           JInt(ExportLimit))

\* results[0].keys(), in the record's order
Keys(rec) == [i \in 1..Len(rec) |-> rec[i][1]]

KeySet(rec) == {rec[i][1] : i \in 1..Len(rec)}

\* rowdict.get(key, restval)
Get(rec, key, restval) ==
    IF key \in KeySet(rec)
    THEN rec[CHOOSE i \in 1..Len(rec) : rec[i][1] = key][2]
    ELSE restval

\* DictWriter with extrasaction='raise': the keys of a row that are no column
WrongFields(rowdict, fieldnames) ==
    KeySet(rowdict) \ {fieldnames[j] : j \in 1..Len(fieldnames)}

\* DictToList by position: the cells of a row in the row's own order
DictToListByPosition(rowdict, fieldnames) ==
    [j \in 1..Len(fieldnames) |->
        IF j <= Len(rowdict) THEN rowdict[j][2] ELSE ""]

\* DictWriter._dict_to_list: the cells of a row, in the order of the columns
DictToList(rowdict, fieldnames) ==
    [j \in 1..Len(fieldnames) |-> Get(rowdict, fieldnames[j], "")]

\* writeheader() then writerows(results), when no row is refused
CsvData(results) ==
    IF results = <<>> THEN <<>>
    ELSE LET fieldnames == Keys(results[1])
         IN  <<fieldnames>> \o
             [i \in 1..Len(results) |-> DictToList(results[i], fieldnames)]

\* the first row DictWriter refuses, 0 when there is none
FirstRefused(results) ==
    LET refused == {i \in 1..Len(results) :
                       WrongFields(results[i], Keys(results[1])) # {}}
    IN  IF refused = {} THEN 0
        ELSE CHOOSE i \in refused : \A j \in refused : i <= j

\* the orders in which a set of names can be joined into a message
Orderings(S) ==
    {s \in [1..Cardinality(S) -> S] :
        \A i, j \in 1..Cardinality(S) : i # j => s[i] # s[j]}

CsvResponse(csv_data) ==
    [EmptyResponse EXCEPT !.code = 200, !.kind = "csv", !.csv = csv_data,
                          !.attachment = TRUE]

\* the responses export_logs can give for the records the store returned;
\* the ValueError of DictWriter lists the refused names in set order
ExportResponses(results) ==
    IF FirstRefused(results) = 0
    THEN {CsvResponse(CsvData(results))}
    ELSE {InternalError(Msg(<<"dict", "contains", "fields", "not", "in",
                              "fieldnames:">>, names)) :
            names \in Orderings(WrongFields(results[FirstRefused(results)],
                                            Keys(results[1])))}

export_logs ==
    /\ op = "idle"
    /\ \E r \in PostRequests, out \in QueryOutcomes :
        LET inv == Invoke(QueryLogs(ExportFilters(query_params(r))), out)
        IN  /\ op' = "export_logs"
            /\ req' = r
            /\ storeLog' = inv.log
            /\ storeOut' = inv.out
            /\ response' \in IF inv.out.raised
                              THEN {InternalError(inv.out.error)}
                              ELSE ExportResponses(inv.out.records)

----------------------------------------------------------------------------
(* health: GET /health *)

health ==
    /\ op = "idle"
    /\ op' = "health"
    /\ req' = NoRequest
    /\ storeLog' = <<>>
    /\ storeOut' = NotCalled
    /\ response' = [EmptyResponse EXCEPT !.code = 200, !.kind = "health"]

----------------------------------------------------------------------------
(* The service *)

Init ==
    /\ op = "idle"
    /\ req = NoRequest
    /\ storeLog = <<>>
    /\ storeOut = NotCalled
    /\ response = EmptyResponse

\* the response is sent and the request context dropped; the handlers keep
\* no state between requests
serve_next ==
    /\ op # "idle"
    /\ op' = "idle"
    /\ req' = NoRequest
    /\ storeLog' = <<>>
    /\ storeOut' = NotCalled
    /\ response' = EmptyResponse

Next ==
    \/ serve_next
    \/ health
    \/ compliance_query
    \/ get_request
    \/ get_duplicates
    \/ get_statistics
    \/ export_logs

Spec == Init /\ [][Next]_vars

----------------------------------------------------------------------------
(* Properties *)

\* the body the handler of the current request reads
Params == query_params(req)

StoreCalled == storeLog # <<>>

\* the filter of the first call of the store
Filters == storeLog[1].filters

StoreReturned == StoreCalled /\ ~storeOut.raised

Records == storeOut.records

Contains(seq, sub) ==
    \E i \in 0..(Len(seq) - Len(sub)) : SubSeq(seq, i + 1, i + Len(sub)) = sub

BadStatus ==
    /\ "status" \in DOMAIN Params
    /\ Params["status"] \notin {JStr(StrSuccess), JStr(StrError)}

BadLimit == "limit" \in DOMAIN Params /\ ~int(Params["limit"]).ok

\* C1: a query whose body has a status other than 'success' and 'error' is
\* answered 400 with a message containing "status must be", and the store
\* is not called, whatever the other fields of the body are
C1_BadStatusRejected ==
    (op = "compliance_query" /\ BadStatus) =>
        /\ response.code = 400
        /\ response.kind = "error"
        /\ Contains(response.error.words, <<"status", "must", "be">>)
        /\ ~StoreCalled

\* a bad status together with a limit that int() refuses, answered 400
C1_Witness ==
    /\ op = "compliance_query"
    /\ BadStatus
    /\ BadLimit
    /\ response.code = 400
    /\ ~StoreCalled

\* C2: a query whose body has no limit hands the store a filter with
\* limit = 100
C2_DefaultLimitInFilter ==
    (op = "compliance_query" /\ "limit" \notin DOMAIN Params /\ StoreCalled) =>
        /\ "limit" \in DOMAIN Filters
        /\ Filters["limit"] = JInt(100)

\* C3: a query whose limit cannot be parsed as an integer is answered 400
\* and the store is not called
C3_BadLimitRejected ==
    (op = "compliance_query" /\ BadLimit) =>
        /\ response.code = 400
        /\ ~StoreCalled

\* C4: every limit carried by a filter passed to the store is an integer
\* that is at least 1
C4_LimitPositive ==
    \A i \in 1..Len(storeLog) :
        "limit" \in DOMAIN storeLog[i].filters =>
            /\ storeLog[i].filters["limit"].kind = "int"
            /\ storeLog[i].filters["limit"].num >= 1

\* C5: get_request calls the store exactly once with {request_id: id,
\* limit: 1}; no record returned gives 404 "Request not found", at least one
\* record gives 200 with the first record
C5_GetByRequestId ==
    op = "get_request" =>
        /\ Len(storeLog) = 1
        /\ storeLog[1].fn = "query_logs"
        /\ Filters = ("request_id" :> JStr(req.path) @@ "limit" :> JInt(1))
        /\ (StoreReturned /\ Records = <<>>) =>
                /\ response.code = 404
                /\ response.kind = "error"
                /\ response.error.words = <<"Request", "not", "found">>
        /\ (StoreReturned /\ Records # <<>>) =>
                /\ response.code = 200
                /\ response.kind = "record"
                /\ response.results = <<Records[1]>>

\* a lookup for which the store returned nothing, answered 404
C5_Witness ==
    /\ op = "get_request"
    /\ StoreReturned
    /\ Records = <<>>
    /\ response.code = 404

SameKeys ==
    \A i, j \in 1..Len(Records) : KeySet(Records[i]) = KeySet(Records[j])

\* row i of the body holds, under each column, the value record i has for it
RowsFollowHeader ==
    /\ Len(response.csv) = Len(Records) + 1
    /\ response.csv[1] = Keys(Records[1])
    /\ \A i \in 1..Len(Records) :
        /\ Len(response.csv[i + 1]) = Len(response.csv[1])
        /\ \A j \in 1..Len(response.csv[1]) :
            \/ \E c \in 1..Len(Records[i]) :
                    /\ Records[i][c][1] = response.csv[1][j]
                    /\ Records[i][c][2] = response.csv[i + 1][j]
            \/ /\ \A c \in 1..Len(Records[i]) :
                      Records[i][c][1] # response.csv[1][j]
               /\ response.csv[i + 1][j] = ""

\* C6: an export of N records that share their keys is answered 200 with an
\* empty body when N = 0 and otherwise with one header row, the keys of the
\* first record in its order, and N data rows in the order of the store
C6_ExportUniform ==
    (op = "export_logs" /\ StoreReturned /\ SameKeys) =>
        /\ response.code = 200
        /\ response.kind = "csv"
        /\ Records = <<>> => response.csv = <<>>
        /\ Records # <<>> => RowsFollowHeader

\* two records with the same keys in different orders, exported
C6_Witness ==
    /\ op = "export_logs"
    /\ StoreReturned
    /\ SameKeys
    /\ Len(Records) = 2
    /\ Keys(Records[1]) # Keys(Records[2])
    /\ response.code = 200
    /\ Len(response.csv) = 3

\* C7: an export of records whose key sets differ still answers with a CSV:
\* the columns are the keys of the first record, an absent field is an
\* empty cell and a field that is no column is dropped
C7_ExportMixedKeys ==
    (op = "export_logs" /\ StoreReturned /\ ~SameKeys) =>
        /\ response.code = 200
        /\ response.kind = "csv"
        /\ RowsFollowHeader

\* C8: the filter of an export is limit = 10000 plus those of start_time and
\* end_time that the body has, unchanged; no other field of the body has an
\* effect and none is validated
C8_ExportFilter ==
    op = "export_logs" =>
        /\ Len(storeLog) = 1
        /\ storeLog[1].fn = "query_logs"
        /\ DOMAIN Filters =
               {"limit"} \cup ((DOMAIN Params) \cap {"start_time", "end_time"})
        /\ Filters["limit"] = JInt(10000)
        /\ \A k \in (DOMAIN Params) \cap {"start_time", "end_time"} :
               Filters[k] = Params[k]
        /\ response.code # 400
        /\ (StoreReturned /\ SameKeys) => response.code = 200

\* an export whose body has a bad status next to start_time, answered 200
C8_Witness ==
    /\ op = "export_logs"
    /\ BadStatus
    /\ "start_time" \in DOMAIN Params
    /\ DOMAIN Filters = {"limit", "start_time"}
    /\ response.code = 200

\* C9: every operation calls the store at most once; when the call fails
\* the response is 500 with the message of the failure, the call is not
\* repeated and nothing of a result is returned
C9_SingleCallNoRetry ==
    op \in {"compliance_query", "get_request", "get_duplicates",
            "get_statistics", "export_logs"} =>
        /\ Len(storeLog) <= 1
        /\ storeOut.raised =>
            /\ Len(storeLog) = 1
            /\ response.code = 500
            /\ response.kind = "error"
            /\ response.error = storeOut.error
            /\ response.results = <<>>
            /\ response.csv = <<>>
            /\ response.count = 0
            /\ response.stats = ""

\* an export during which the store raised
C9_Witness ==
    /\ op = "export_logs"
    /\ storeOut.raised
    /\ Len(storeLog) = 1
    /\ response.code = 500

\* C10: the filter of an accepted query has, among the eight filter keys,
\* exactly those of the body, each with its value; a body without status is
\* never answered 400; the response to what the store returns is 200 with
\* count the number of records
C10_QueryFilter ==
    op = "compliance_query" =>
        /\ (~BadStatus /\ ~BadLimit) => StoreCalled
        /\ "status" \notin DOMAIN Params => response.code # 400
        /\ StoreCalled =>
            /\ Len(storeLog) = 1
            /\ storeLog[1].fn = "query_logs"
            /\ (DOMAIN Filters) \cap FilterKeys = (DOMAIN Params) \cap FilterKeys
            /\ \A k \in (DOMAIN Params) \cap FilterKeys : Filters[k] = Params[k]
        /\ StoreReturned =>
            /\ response.code = 200
            /\ response.kind = "list"
            /\ response.count = Len(Records)
            /\ response.results = Records

\* a query with an empty request_id and no other filter key: the empty
\* string is kept and nothing else is added
C10_Witness ==
    /\ op = "compliance_query"
    /\ DOMAIN Params = {"request_id"}
    /\ Params["request_id"] = JStr(<<>>)
    /\ StoreReturned
    /\ Filters = ("request_id" :> JStr(<<>>))
    /\ Len(Records) = 2
    /\ response.count = 2

====
